---- MODULE Spec2Model ----
(***************************************************************************)
(* bible-fetcher (src/app.py): the quote-block tokenizer, the reference    *)
(* (CEB) red-letter mask builder and the transfer of that mask onto the    *)
(* blocks of another edition.                                              *)
(*                                                                         *)
(* A text is a sequence of characters.  A character is written by name:    *)
(*   "ldq" = U+201C  "rdq" = U+201D  "dq" = U+0022 (straight quote)         *)
(*   "lcb" = U+300C  "rcb" = U+300D  "lg" = U+00AB  "rg" = U+00BB           *)
(*   "sp"  = space, "a" "b" "i" lower-case letters, "A" "B" upper-case      *)
(*   letters, "Idot" = U+0130 (capital I with dot above), "cdot" = U+0307   *)
(*   (combining dot above, not a word character)                            *)
(***************************************************************************)
EXTENDS Integers, Sequences, FiniteSets, TLC

VARIABLES pc, full_text, all_woj_text, blocks, red_letter_map,
          clean_text, has_native, target_blocks, mask, valid_mapping,
          text_html,
          norm_text, norm_once, norm_twice,
          passage_pieces, verse_buffer, cursor, processed_ids, final_output,
          result_text

\* a text, its normalization and the normalization of that
normVars == <<norm_text, norm_once, norm_twice>>

\* Pass 2 of get_bible_passage over a whole passage
passVars == <<passage_pieces, verse_buffer, cursor, processed_ids, final_output,
              result_text>>

vars == <<pc, full_text, all_woj_text, blocks, red_letter_map,
          clean_text, has_native, target_blocks, mask, valid_mapping,
          text_html, normVars, passVars>>

(***************************************************************************)
(* Bounds of the checked inputs.                                           *)
(***************************************************************************)
\* longest verse text drawn over the full input alphabet
MaxLen == 4
\* verse texts "a"^n, n in MinLong..MaxLong, make the ratio reach 9/10, 10/11
MinLong == 9
MaxLong == 11
\* longest text given to normalize alone
MaxNorm == 3
\* longest verse label of a passage of one verse
MaxLabel == 3
\* most pieces (headers and verses) of a passage of several verses
MaxItems == 3

(***************************************************************************)
(* Characters.                                                             *)
(***************************************************************************)
\* ['“', '「', '«']
Openers == {"ldq", "lcb", "lg"}
\* ['”', '」', '»']
Closers == {"rdq", "rcb", "rg"}
\* the straight quote "
Straight == "dq"
\* the character class of QUOTE_SPLITTER
QUOTE_SPLITTER == Openers \cup Closers \cup {Straight}

LowerLetters == {"a", "b", "i"}
UpperLetters == {"A", "B", "Idot"}
Whitespace == {"sp", "nl"}

\* characters the inputs are drawn from
TextChars == {"ldq", "rdq", "dq", "a", "B", "sp"}

SeqsUpTo(S, n) == UNION {[1..k -> S] : k \in 0..n}
LongTexts == {[i \in 1..n |-> "a"] : n \in MinLong..MaxLong}
VerseTexts == SeqsUpTo(TextChars, MaxLen) \cup LongTexts

Range(f) == {f[i] : i \in DOMAIN f}

\* the characters of text at the positions in S, in order
RECURSIVE PickFrom(_, _, _)
PickFrom(text, S, i) ==
    IF i > Len(text) THEN <<>>
    ELSE (IF i \in S THEN <<text[i]>> ELSE <<>>) \o PickFrom(text, S, i + 1)

\* the woj elements lie inside the verse span: the joined woj texts are
\* pieces of the verse text, in document order
WojTextsOf(ft) == {PickFrom(ft, S, 1) : S \in SUBSET (1..Len(ft))}

\* text_content is stripped and non-empty when it enters verse_buffer
TargetTexts == {t \in VerseTexts : t # <<>> /\ Head(t) # "sp" /\ t[Len(t)] # "sp"}

(***************************************************************************)
(* normalize: NORMALIZER = [\W_]+ is deleted, the rest lower-cased.        *)
(***************************************************************************)
\* characters NORMALIZER does not match (letters; the model has no digits)
IsWordChar(c) == c \in LowerLetters \cup UpperLetters

\* str.lower() on one character; U+0130 lower-cases to "i" followed by the
\* combining dot U+0307
lower(c) ==
    IF c = "A" THEN <<"a">>
    ELSE IF c = "B" THEN <<"b">>
    ELSE IF c = "Idot" THEN <<"i", "cdot">>
    ELSE <<c>>

\* str.lower()
RECURSIVE LowerAll(_)
LowerAll(text) ==
    IF text = <<>> THEN <<>> ELSE lower(Head(text)) \o LowerAll(Tail(text))

\* NORMALIZER.sub('', text)
RECURSIVE NormalizerSub(_)
NormalizerSub(text) ==
    IF text = <<>> THEN <<>>
    ELSE IF IsWordChar(Head(text))
         THEN <<Head(text)>> \o NormalizerSub(Tail(text))
         ELSE NormalizerSub(Tail(text))

normalize(text) == LowerAll(NormalizerSub(text))

\* Python's  s in t  on strings
IsSubstring(s, t) ==
    \E i \in 0..(Len(t) - Len(s)) : SubSeq(t, i + 1, i + Len(s)) = s

\* str.strip()
RECURSIVE LStrip(_)
LStrip(text) ==
    IF text # <<>> /\ Head(text) \in Whitespace THEN LStrip(Tail(text)) ELSE text

RECURSIVE RStrip(_)
RStrip(text) ==
    IF text # <<>> /\ text[Len(text)] \in Whitespace
    THEN RStrip(SubSeq(text, 1, Len(text) - 1)) ELSE text

Strip(text) == RStrip(LStrip(text))

(***************************************************************************)
(* get_quote_blocks                                                        *)
(***************************************************************************)
\* QUOTE_SPLITTER.split(text): plain runs (possibly empty) alternating with
\* one-character delimiter tokens
RECURSIVE SplitFrom(_, _, _)
SplitFrom(text, i, run) ==
    IF i > Len(text) THEN <<run>>
    ELSE IF text[i] \in QUOTE_SPLITTER
         THEN <<run, <<text[i]>>>> \o SplitFrom(text, i + 1, <<>>)
         ELSE SplitFrom(text, i + 1, Append(run, text[i]))

Split(text) == SplitFrom(text, 1, <<>>)

\* token in ['“', '「', '«'] / token in ['”', '」', '»']
IsOpener(token) == Len(token) = 1 /\ token[1] \in Openers
IsCloser(token) == Len(token) = 1 /\ token[1] \in Closers

\* QUOTE_SPLITTER.match(token)
IsDelimiter(token) == token # <<>> /\ token[1] \in QUOTE_SPLITTER

\* 1. Determine Initial State: the first distinct closer or opener decides
RECURSIVE InitialState(_)
InitialState(tokens) ==
    IF tokens = <<>> THEN FALSE
    ELSE IF IsCloser(Head(tokens)) THEN TRUE
    ELSE IF IsOpener(Head(tokens)) THEN FALSE
    ELSE InitialState(Tail(tokens))

Block(text, is_quote, is_implicit) ==
    [text |-> text, is_quote |-> is_quote, is_implicit |-> is_implicit]

\* OPENER branch
OpenerStep(st, token) ==
    IF ~st.in_quote
    THEN [blocks |-> IF st.current_text # <<>>
                     THEN Append(st.blocks, Block(st.current_text, FALSE, FALSE))
                     ELSE st.blocks,
          current_text |-> token,
          in_quote |-> TRUE]
    ELSE [st EXCEPT !.current_text = st.current_text \o token]

\* a CLOSER branch that keeps the closer only when it ends a quotation
CloserStep_dropped(st, token) ==
    IF st.in_quote
    THEN [blocks |-> Append(st.blocks, Block(st.current_text \o token, TRUE, FALSE)),
          current_text |-> <<>>,
          in_quote |-> FALSE]
    ELSE st

\* CLOSER branch
CloserStep(st, token) ==
    IF st.in_quote
    THEN [blocks |-> Append(st.blocks, Block(st.current_text \o token, TRUE, FALSE)),
          current_text |-> <<>>,
          in_quote |-> FALSE]
    ELSE [st EXCEPT !.current_text = st.current_text \o token]

\* a straight quote that always opens
StraightStep_opener(st, token) == OpenerStep(st, token)

\* Straight quote: toggle
StraightStep(st, token) ==
    IF ~st.in_quote
    THEN [blocks |-> IF st.current_text # <<>>
                     THEN Append(st.blocks, Block(st.current_text, FALSE, FALSE))
                     ELSE st.blocks,
          current_text |-> token,
          in_quote |-> TRUE]
    ELSE [blocks |-> Append(st.blocks, Block(st.current_text \o token, TRUE, FALSE)),
          current_text |-> <<>>,
          in_quote |-> FALSE]

\* one iteration of the loop "for token in tokens"
TokenStep(st, token) ==
    IF token = <<>> THEN st
    ELSE IF IsDelimiter(token)
         THEN IF IsOpener(token) THEN OpenerStep(st, token)
              ELSE IF IsCloser(token) THEN CloserStep(st, token)
              ELSE StraightStep(st, token)
         ELSE [st EXCEPT !.current_text = st.current_text \o token]

\* 2. Tokenize
RECURSIVE TokenLoop(_, _)
TokenLoop(st, tokens) ==
    IF tokens = <<>> THEN st
    ELSE TokenLoop(TokenStep(st, Head(tokens)), Tail(tokens))

\* a final flush that never marks the block implicit
FinalFlush_explicit(st) ==
    IF st.current_text # <<>>
    THEN Append(st.blocks, Block(st.current_text, st.in_quote, FALSE))
    ELSE st.blocks

\* 3. Flush Final Block
FinalFlush(st) ==
    IF st.current_text # <<>>
    THEN Append(st.blocks, Block(st.current_text, st.in_quote, st.in_quote))
    ELSE st.blocks

get_quote_blocks(text) ==
    FinalFlush(TokenLoop([blocks |-> <<>>,
                          current_text |-> <<>>,
                          in_quote |-> InitialState(Split(text))],
                         Split(text)))

\* in_quote when the token loop ends
EndsInQuote(text) ==
    TokenLoop([blocks |-> <<>>,
               current_text |-> <<>>,
               in_quote |-> InitialState(Split(text))],
              Split(text)).in_quote

(***************************************************************************)
(* analyze_ceb_for_red_letters, the loop body over verse_content_map       *)
(***************************************************************************)
\* ratio = len(norm_woj) / len(norm_full); ratio > 0.9.  The quotient of two
\* lengths below 2^53/10 rounds to a double above 0.9 exactly when it is
\* above 9/10, so the test is 10 * len(norm_woj) > 9 * len(norm_full).
is_implicit_red_verse(text, woj) ==
    /\ Len(normalize(text)) > 0
    /\ 10 * Len(normalize(woj)) > 9 * Len(normalize(text))

\* is_red of one block
is_red(block, text, woj) ==
    IF is_implicit_red_verse(text, woj) THEN TRUE
    ELSE /\ block.is_quote
         /\ normalize(block.text) # <<>>
         /\ IsSubstring(normalize(block.text), normalize(woj))

\* mask_data of one verse; text is full_text after strip()
mask_data(text, woj) ==
    LET bs == get_quote_blocks(text)
    IN [i \in 1..Len(bs) |->
          [is_red |-> is_red(bs[i], text, woj),
           is_implicit_verse |-> is_implicit_red_verse(text, woj)]]

\* the verse label of the one verse of the passage, the string "1"
v_num == <<"1">>

(***************************************************************************)
(* State machine: the reference edition is analysed, then the verse of the *)
(* requested edition is processed (Pass 2 of get_bible_passage).           *)
(***************************************************************************)
Init ==
    /\ pc = "start"
    /\ full_text = <<>>
    /\ all_woj_text = <<>>
    /\ blocks = <<>>
    /\ red_letter_map = <<>>
    /\ clean_text = <<>>
    /\ has_native = FALSE
    /\ target_blocks = <<>>
    /\ mask = <<>>
    /\ valid_mapping = FALSE
    /\ text_html = <<>>
    /\ norm_text = <<>>
    /\ norm_once = <<>>
    /\ norm_twice = <<>>
    /\ passage_pieces = <<>>
    /\ verse_buffer = <<>>
    /\ cursor = 0
    /\ processed_ids = {}
    /\ final_output = <<>>
    /\ result_text = <<>>

\* analyze_ceb_for_red_letters on a passage of one verse
AnalyzeCeb ==
    /\ pc = "start"
    /\ \E ft \in VerseTexts :
         \E woj \in WojTextsOf(ft) :
            /\ full_text' = Strip(ft)
            /\ all_woj_text' = woj
            /\ blocks' = get_quote_blocks(Strip(ft))
            /\ red_letter_map' = [v \in {v_num} |-> mask_data(Strip(ft), woj)]
    /\ pc' = "analyzed"
    /\ UNCHANGED <<clean_text, has_native, target_blocks, mask, valid_mapping, text_html>>
    /\ UNCHANGED <<normVars, passVars>>

\* analyze_ceb_for_red_letters returns the empty map: status_code != 200,
\* no passage container, or an exception
AnalyzeCebFails ==
    /\ pc = "start"
    /\ red_letter_map' = [v \in {} |-> <<>>]
    /\ pc' = "analyzed"
    /\ UNCHANGED <<full_text, all_woj_text, blocks, clean_text, has_native,
                   target_blocks, mask, valid_mapping, text_html>>
    /\ UNCHANGED <<normVars, passVars>>

\* mask lookup of Pass 2 for a label without "-"
LookupMask(native) ==
    IF ~native /\ DOMAIN red_letter_map # {} /\ v_num \in DOMAIN red_letter_map
    THEN red_letter_map[v_num]
    ELSE <<>>

\* 1. Count Mismatch, 2. Type Mismatch
ValidMapping(tb, m) ==
    /\ Len(tb) = Len(m)
    /\ \A i \in 1..Len(tb) :
         ~(~m[i].is_implicit_verse /\ tb[i].is_implicit /\ ~tb[i].is_quote)

\* final_html_parts: a part is the block's text, red when it is wrapped in
\* <span class="woj-text">
final_html_parts(tb, m) ==
    [i \in 1..Len(tb) |->
        [content |-> tb[i].text, red |-> i <= Len(m) /\ m[i].is_red]]

\* text_html left as it came from verse_buffer
Untouched(ct) == <<[content |-> ct, red |-> FALSE]>>

\* return red_mask_map: the locals of the analysis go out of scope
ReturnMap ==
    /\ pc = "analyzed"
    /\ pc' = "mapped"
    /\ full_text' = <<>>
    /\ all_woj_text' = <<>>
    /\ blocks' = <<>>
    /\ UNCHANGED <<red_letter_map, clean_text, has_native, target_blocks, mask,
                   valid_mapping, text_html>>
    /\ UNCHANGED <<normVars, passVars>>

\* Pass 2 of get_bible_passage on the verse.  The token loop that fills
\* new_html_parts writes nothing that is read afterwards.
ProcessVerse ==
    /\ pc = "mapped"
    /\ \E ct \in TargetTexts, native \in BOOLEAN :
         LET m == LookupMask(native)
             tb == IF m # <<>> THEN get_quote_blocks(ct) ELSE <<>>
             valid == m # <<>> /\ ValidMapping(tb, m)
         IN /\ clean_text' = ct
            /\ has_native' = native
            /\ mask' = m
            /\ target_blocks' = tb
            /\ valid_mapping' = valid
            /\ text_html' = IF valid THEN final_html_parts(tb, m) ELSE Untouched(ct)
    /\ pc' = "emitted"
    /\ UNCHANGED <<full_text, all_woj_text, blocks, red_letter_map>>
    /\ UNCHANGED <<normVars, passVars>>

Next == AnalyzeCeb \/ AnalyzeCebFails \/ ReturnMap \/ ProcessVerse

Spec == Init /\ [][Next]_vars

(***************************************************************************)
(* Pass 2 of get_bible_passage over a passage: passage_pieces and          *)
(* verse_buffer as Pass 1 leaves them, red_letter_map as the reference     *)
(* analysis returned it.  A verse label is a string, a sequence over       *)
(* LabelChars.                                                             *)
(***************************************************************************)
DigitChars == <<"0", "1", "2", "3", "4", "5", "6", "7", "8", "9">>

\* "-" in v_num
HasDash(label) == \E i \in DOMAIN label : label[i] = "-"

\* v_num.split('-')
RECURSIVE SplitDashFrom(_, _, _)
SplitDashFrom(label, i, part) ==
    IF i > Len(label) THEN <<part>>
    ELSE IF label[i] = "-"
         THEN <<part>> \o SplitDashFrom(label, i + 1, <<>>)
         ELSE SplitDashFrom(label, i + 1, Append(part, label[i]))

SplitDash(label) == SplitDashFrom(label, 1, <<>>)

DigitValue(c) == CHOOSE k \in 0..9 : DigitChars[k + 1] = c

\* int(part) does not raise ValueError
IsInt(part) ==
    /\ part # <<>>
    /\ \A i \in DOMAIN part : \E k \in 0..9 : DigitChars[k + 1] = part[i]

\* int(part)
RECURSIVE IntOf(_)
IntOf(part) ==
    IF part = <<>> THEN 0
    ELSE 10 * IntOf(SubSeq(part, 1, Len(part) - 1)) + DigitValue(part[Len(part)])

\* str(i), i >= 0
RECURSIVE StrOf(_)
StrOf(i) ==
    IF i < 10 THEN <<DigitChars[i + 1]>>
    ELSE StrOf(i \div 10) \o <<DigitChars[(i % 10) + 1]>>

\* a loop that stops one verse short of end
RECURSIVE combined_mask_short(_, _, _)
combined_mask_short(map, start, end) ==
    IF start >= end THEN <<>>
    ELSE (IF StrOf(start) \in DOMAIN map THEN map[StrOf(start)] ELSE <<>>)
         \o combined_mask_short(map, start + 1, end)

\* combined_mask after "for i in range(start, end + 1)"
RECURSIVE combined_mask(_, _, _)
combined_mask(map, start, end) ==
    IF start > end THEN <<>>
    ELSE (IF StrOf(start) \in DOMAIN map THEN map[StrOf(start)] ELSE <<>>)
         \o combined_mask(map, start + 1, end)

\* mask after the lookup "if v_num in red_letter_map ... elif '-' in v_num";
\* a ValueError of int() leaves mask = []
MaskOf(label, map, native) ==
    IF native \/ DOMAIN map = {} THEN <<>>
    ELSE IF label \in DOMAIN map THEN map[label]
    ELSE IF HasDash(label)
         THEN LET parts == SplitDash(label)
              IN IF IsInt(parts[1]) /\ IsInt(parts[2])
                 THEN combined_mask(map, IntOf(parts[1]), IntOf(parts[2]))
                 ELSE <<>>
    ELSE <<>>

\* a verse whose mismatching mask is applied all the same
VerseHtml_unchecked(ct, m) ==
    IF m # <<>> THEN final_html_parts(get_quote_blocks(ct), m) ELSE Untouched(ct)

\* text_html of the verse after "if mask:"
VerseHtml(ct, m) ==
    IF m # <<>> /\ ValidMapping(get_quote_blocks(ct), m)
    THEN final_html_parts(get_quote_blocks(ct), m)
    ELSE Untouched(ct)

\* current_verse_num = None
NoneId == <<"None">>

\* {'type': 'header', 'content': "\n\n"} and {'type': 'verse', 'id': ...}
HeaderPiece == [type |-> "header", id |-> NoneId]
VersePiece(id) == [type |-> "verse", id |-> id]

\* an element of final_output: the html of a verse, or "\n\n" for a header;
\* id tells the verse whose v_tag_html leads the element
Emitted(id, html) == [id |-> id, text_html |-> html]

\* no locals of a verse iteration
NoVerseLocals ==
    /\ clean_text' = <<>>
    /\ has_native' = FALSE
    /\ target_blocks' = <<>>
    /\ mask' = <<>>
    /\ valid_mapping' = FALSE
    /\ text_html' = <<>>

\* one iteration of "for item in passage_pieces"
ProcessItem ==
    /\ pc = "pass2"
    /\ cursor < Len(passage_pieces)
    /\ cursor' = cursor + 1
    /\ LET item == passage_pieces[cursor + 1]
           id == item.id
       IN IF item.type = "header"
          THEN /\ final_output' = Append(final_output,
                                        Emitted(NoneId, Untouched(<<"nl", "nl">>)))
               /\ processed_ids' = processed_ids
               /\ NoVerseLocals
          ELSE IF id = NoneId \/ id \in processed_ids
          THEN /\ final_output' = final_output
               /\ processed_ids' = processed_ids
               /\ NoVerseLocals
          ELSE IF id \notin DOMAIN verse_buffer
          THEN /\ final_output' = final_output
               /\ processed_ids' = processed_ids \cup {id}
               /\ NoVerseLocals
          ELSE LET data == verse_buffer[id]
                   m == MaskOf(id, red_letter_map, data.has_native)
               IN /\ processed_ids' = processed_ids \cup {id}
                  /\ clean_text' = data.html_content
                  /\ has_native' = data.has_native
                  /\ mask' = m
                  /\ target_blocks' = IF m # <<>>
                                      THEN get_quote_blocks(data.html_content)
                                      ELSE <<>>
                  /\ valid_mapping' = (m # <<>> /\
                                        ValidMapping(get_quote_blocks(data.html_content), m))
                  /\ text_html' = VerseHtml(data.html_content, m)
                  /\ final_output' = Append(final_output,
                                           Emitted(id, VerseHtml(data.html_content, m)))
    /\ UNCHANGED <<pc, full_text, all_woj_text, blocks, red_letter_map, normVars,
                   passage_pieces, verse_buffer, result_text>>

\* an element of final_output as text; the woj-text span is written as the
\* two tags "<woj>" and "</woj>"
RECURSIVE HtmlText(_)
HtmlText(parts) ==
    IF parts = <<>> THEN <<>>
    ELSE (IF Head(parts).red
          THEN <<"<woj>">> \o Head(parts).content \o <<"</woj>">>
          ELSE Head(parts).content) \o HtmlText(Tail(parts))

\* " ".join(final_output)
RECURSIVE JoinOutput(_)
JoinOutput(out) ==
    IF out = <<>> THEN <<>>
    ELSE IF Len(out) = 1 THEN HtmlText(out[1].text_html)
    ELSE HtmlText(out[1].text_html) \o <<"sp">> \o JoinOutput(Tail(out))

\* re.sub(r' \n', '\n', .)
RECURSIVE SubSpaceNewline(_)
SubSpaceNewline(t) ==
    IF Len(t) < 2 THEN t
    ELSE IF t[1] = "sp" /\ t[2] = "nl"
         THEN <<"nl">> \o SubSpaceNewline(SubSeq(t, 3, Len(t)))
         ELSE <<t[1]>> \o SubSpaceNewline(Tail(t))

\* re.sub(r'\n ', '\n', .)
RECURSIVE SubNewlineSpace(_)
SubNewlineSpace(t) ==
    IF Len(t) < 2 THEN t
    ELSE IF t[1] = "nl" /\ t[2] = "sp"
         THEN <<"nl">> \o SubNewlineSpace(SubSeq(t, 3, Len(t)))
         ELSE <<t[1]>> \o SubNewlineSpace(Tail(t))

\* length of the run of c at the head of t
RECURSIVE RunLen(_, _)
RunLen(t, c) ==
    IF t # <<>> /\ Head(t) = c THEN 1 + RunLen(Tail(t), c) ELSE 0

\* re.sub of a run of at least least characters c by keep of them
RECURSIVE CollapseRuns(_, _, _, _)
CollapseRuns(t, c, least, keep) ==
    IF t = <<>> THEN <<>>
    ELSE IF Head(t) = c
         THEN LET n == RunLen(t, c)
              IN [i \in 1..(IF n >= least THEN keep ELSE n) |-> c]
                 \o CollapseRuns(SubSeq(t, n + 1, Len(t)), c, least, keep)
         ELSE <<Head(t)>> \o CollapseRuns(Tail(t), c, least, keep)

\* the four re.sub calls and strip() on the joined output
CleanOutput(t) ==
    Strip(CollapseRuns(CollapseRuns(SubNewlineSpace(SubSpaceNewline(t)),
                                    "nl", 3, 2),
                       "sp", 2, 1))

\* after the loop: join, clean up, return result_data
FinishPassage ==
    /\ pc = "pass2"
    /\ cursor = Len(passage_pieces)
    /\ result_text' = CleanOutput(JoinOutput(final_output))
    /\ pc' = "returned"
    /\ UNCHANGED <<full_text, all_woj_text, blocks, red_letter_map, clean_text,
                   has_native, target_blocks, mask, valid_mapping, text_html,
                   normVars, passage_pieces, verse_buffer, cursor, processed_ids,
                   final_output>>

\* characters of the verse labels
LabelChars == {"1", "2", "3", "-", "x"}

\* labels of the target verse of a passage of one verse
Labels == (SeqsUpTo(LabelChars, MaxLabel) \ {<<>>}) \cup {NoneId}

\* labels of the target verses of a passage of several verses
CoreLabels == {<<"1">>, <<"2">>, <<"1", "-", "2">>, <<"x", "-", "2">>}

\* labels the reference edition has masks for
RefLabels == {<<"1">>, <<"2">>, <<"3">>, <<"1", "-", "2">>}

\* masks the reference analysis builds: of a verse that is one quotation of
\* direct speech, and of a verse with narrative before such a quotation
RefMasks == {mask_data(<<"ldq", "a", "rdq">>, <<"ldq", "a", "rdq">>),
             mask_data(<<"a", "ldq", "B", "rdq">>, <<"ldq", "B", "rdq">>)}

\* red_letter_map given to get_bible_passage
RefMaps == UNION {[S -> RefMasks] : S \in SUBSET RefLabels}

\* html_content of the target verses
PassageTexts == {<<"a", "ldq", "B", "rdq">>, <<"ldq", "a", "rdq">>}

VerseData == [html_content : PassageTexts, has_native : BOOLEAN]

\* verse_buffer entries of a passage of several verses
CoreVerseData == [html_content : {<<"a", "ldq", "B", "rdq">>}, has_native : BOOLEAN]

\* verse_buffer entries for the pieces pp
BufferData(pp) == IF Len(pp) = 1 THEN VerseData ELSE CoreVerseData

\* passage_pieces as Pass 1 builds it: a verse piece never follows a piece
\* with the same id, and only the first piece can have the id None
WellFormedPieces(pp) ==
    /\ \A i \in 1..(Len(pp) - 1) :
         pp[i + 1].type = "verse" => pp[i + 1].id # pp[i].id
    /\ \A i \in 2..Len(pp) : pp[i].type = "verse" => pp[i].id # NoneId

CorePieces == {HeaderPiece} \cup {VersePiece(id) : id \in CoreLabels}

PieceSeqs ==
    {<<VersePiece(id)>> : id \in Labels}
    \cup {pp \in SeqsUpTo(CorePieces, MaxItems) : WellFormedPieces(pp)}

VerseIds(pp) == {pp[i].id : i \in {j \in DOMAIN pp : pp[j].type = "verse"}}

InitPassage ==
    /\ pc = "pass2"
    /\ full_text = <<>>
    /\ all_woj_text = <<>>
    /\ blocks = <<>>
    /\ red_letter_map \in RefMaps
    /\ clean_text = <<>>
    /\ has_native = FALSE
    /\ target_blocks = <<>>
    /\ mask = <<>>
    /\ valid_mapping = FALSE
    /\ text_html = <<>>
    /\ norm_text = <<>>
    /\ norm_once = <<>>
    /\ norm_twice = <<>>
    /\ passage_pieces \in PieceSeqs
    /\ verse_buffer \in [VerseIds(passage_pieces) -> BufferData(passage_pieces)]
    /\ cursor = 0
    /\ processed_ids = {}
    /\ final_output = <<>>
    /\ result_text = <<>>

NextPassage == ProcessItem \/ FinishPassage

SpecPassage == InitPassage /\ [][NextPassage]_vars

(***************************************************************************)
(* normalize applied to a text and to its own result.                      *)
(***************************************************************************)
\* characters of the texts given to normalize
NormChars == {"a", "B", "Idot", "sp", "rdq"}
NormTexts == SeqsUpTo(NormChars, MaxNorm)

\* normalize(text)
NormalizeOnce ==
    /\ pc = "start"
    /\ \E t \in NormTexts :
         /\ norm_text' = t
         /\ norm_once' = normalize(t)
    /\ pc' = "normalized"
    /\ UNCHANGED <<full_text, all_woj_text, blocks, red_letter_map, clean_text,
                   has_native, target_blocks, mask, valid_mapping, text_html,
                   norm_twice, passVars>>

\* normalize(normalize(text))
NormalizeAgain ==
    /\ pc = "normalized"
    /\ norm_twice' = normalize(norm_once)
    /\ pc' = "normalized_twice"
    /\ UNCHANGED <<full_text, all_woj_text, blocks, red_letter_map, clean_text,
                   has_native, target_blocks, mask, valid_mapping, text_html,
                   norm_text, norm_once, passVars>>

NextNormalize == NormalizeOnce \/ NormalizeAgain

SpecNormalize == Init /\ [][NextNormalize]_vars

(***************************************************************************)
(* Properties.                                                             *)
(***************************************************************************)
RECURSIVE ConcatTexts(_)
ConcatTexts(bs) ==
    IF bs = <<>> THEN <<>> ELSE Head(bs).text \o ConcatTexts(Tail(bs))

NumQuotes(bs) == Cardinality({i \in DOMAIN bs : bs[i].is_quote})

\* indices of the Quotation blocks, left to right
QuoteIndices(bs) ==
    SelectSeq([i \in 1..Len(bs) |-> i], LAMBDA i : bs[i].is_quote)

Alternates(bs) ==
    \A i \in 1..(Len(bs) - 1) : bs[i].is_quote # bs[i + 1].is_quote

NoColouring == \A i \in DOMAIN text_html : ~text_html[i].red

\* the reference verse has been analysed and its mask is in the map
Analysed == pc = "analyzed" /\ DOMAIN red_letter_map # {}

\* the mask of the reference verse
RefMask == red_letter_map[v_num]

\* a mask was found for the target verse and the transfer was attempted
Attempted == pc = "emitted" /\ mask # <<>>

\* the whole-verse-implicit case: the target is one single Narrative block and
\* the mask is one single whole-verse-implicit entry
WholeVerseCase ==
    /\ Len(target_blocks) = 1
    /\ ~target_blocks[1].is_quote
    /\ Len(mask) = 1
    /\ mask[1].is_implicit_verse

\* indices of the target blocks that stand for its Quotation spans: the
\* Quotation blocks, or the single block in the whole-verse-implicit case
TargetQuoteIndices ==
    IF WholeVerseCase THEN <<1>> ELSE QuoteIndices(target_blocks)

\* C1: concatenating the texts of the blocks get_quote_blocks returns, in
\* order, gives back the input text, for the reference verse and for the
\* target verse; no delimiter and no plain run is lost or duplicated.
C1_Reconstruction ==
    /\ pc = "analyzed" => ConcatTexts(blocks) = full_text
    /\ Attempted => ConcatTexts(target_blocks) = clean_text

\* C1 witness: a tokenized verse with an opener met inside a quotation and a
\* closer met in narrative.
C1_Witness ==
    /\ pc = "analyzed"
    /\ \E i \in DOMAIN blocks :
         /\ blocks[i].is_quote
         /\ \E j \in 2..Len(blocks[i].text) : blocks[i].text[j] \in Openers
    /\ \E i \in DOMAIN blocks :
         /\ ~blocks[i].is_quote
         /\ \E j \in DOMAIN blocks[i].text : blocks[i].text[j] \in Closers

\* C2: no two consecutive blocks returned by get_quote_blocks have the same
\* kind (is_quote), for the reference verse and for the target verse.
C2_Alternation ==
    /\ pc = "analyzed" => Alternates(blocks)
    /\ Attempted => Alternates(target_blocks)

\* C3: a Narrative block of the target is never coloured, except when the
\* target is one single block and the mask is one single whole-verse-implicit
\* entry.
C3_NarrativeNeverColoured ==
    (Attempted /\ valid_mapping) =>
        \A i \in DOMAIN target_blocks :
            (~target_blocks[i].is_quote /\ text_html[i].red) =>
                WholeVerseCase

\* C4: when the mapping is valid, the i-th Quotation block of the target
\* (counting Quotation blocks only) is coloured exactly when the i-th mask
\* entry has is_red.
C4_QuoteIndexAlignment ==
    (Attempted /\ valid_mapping) =>
        \A i \in 1..Len(TargetQuoteIndices) :
            /\ i <= Len(mask)
            /\ text_html[TargetQuoteIndices[i]].red = mask[i].is_red

\* C5: when the number of Quotation blocks of the target differs from the
\* number of mask entries, nothing of the verse is coloured.
C5_QuoteCountMismatchFails ==
    (Attempted /\ Len(TargetQuoteIndices) # Len(mask)) => NoColouring

\* C6: when at some index the mask entry is not whole-verse-implicit while
\* the target block at that index is implicit, nothing of the verse is
\* coloured.
C6_ExplicitVsImplicitFails ==
    (Attempted /\ \E i \in DOMAIN mask :
                     /\ i <= Len(target_blocks)
                     /\ ~mask[i].is_implicit_verse
                     /\ target_blocks[i].is_implicit) => NoColouring

\* C7: for a reference verse without the whole-verse fallback, the mask has
\* one entry per Quotation block and none for a Narrative block: its length
\* is the number of Quotation blocks.
C7_MaskPerQuotation ==
    (Analysed /\ ~is_implicit_red_verse(full_text, all_woj_text)) =>
        Len(RefMask) = NumQuotes(blocks)

\* C8: for a reference verse with at least one Quotation block, the mask
\* entry of each Quotation block has is_red exactly when the normalized block
\* text is non-empty and a substring of the normalized woj text, and has
\* is_implicit_verse false.
C8_QuoteEntryBySubstring ==
    (Analysed /\ NumQuotes(blocks) >= 1) =>
        \A i \in DOMAIN blocks :
            blocks[i].is_quote =>
                /\ RefMask[i].is_red <=>
                       (/\ normalize(blocks[i].text) # <<>>
                        /\ IsSubstring(normalize(blocks[i].text), normalize(all_woj_text)))
                /\ ~RefMask[i].is_implicit_verse

\* C9: for a reference verse with no quotation delimiter and a non-empty
\* normalization, the mask is the single entry (is_red, is_implicit_verse)
\* = (true, true) when len(norm_woj)/len(norm_full) > 0.9 and is empty when
\* the ratio is 0.9 or below.
C9_FallbackThreshold ==
    (/\ Analysed
     /\ \A j \in DOMAIN full_text : full_text[j] \notin QUOTE_SPLITTER
     /\ normalize(full_text) # <<>>) =>
        IF 10 * Len(normalize(all_woj_text)) > 9 * Len(normalize(full_text))
        THEN RefMask = <<[is_red |-> TRUE, is_implicit_verse |-> TRUE]>>
        ELSE RefMask = <<>>

\* C10: in every mask built, an entry with is_implicit_verse is the only
\* entry of its mask.
C10_ImplicitEntryIsAlone ==
    Analysed =>
        \A i \in DOMAIN RefMask : RefMask[i].is_implicit_verse => Len(RefMask) = 1

\* the texts given to get_quote_blocks in this state, with the blocks returned
Tokenized ==
    (IF pc = "analyzed" THEN {<<full_text, blocks>>} ELSE {})
    \cup (IF Attempted THEN {<<clean_text, target_blocks>>} ELSE {})

\* C11: when the first distinct delimiter of the text is a closer, so that
\* get_quote_blocks starts with in_quote true, the first block returned is a
\* quote block with is_implicit true.
C11_ImplicitOpenFirstBlock ==
    \A tk \in Tokenized :
        InitialState(Split(tk[1])) =>
            /\ tk[2] # <<>>
            /\ tk[2][1].is_quote
            /\ tk[2][1].is_implicit

\* one opener followed by plain text only
OpenerThenPlain(text) ==
    /\ Len(text) >= 2
    /\ text[1] \in Openers
    /\ \A j \in 2..Len(text) : text[j] \notin QUOTE_SPLITTER

\* C12: when the text ends while in_quote is true, the last block returned is
\* a quote block with is_implicit true; one opener followed only by plain
\* text gives exactly one block, a quote block with is_implicit true.
C12_ImplicitClose ==
    \A tk \in Tokenized :
        /\ EndsInQuote(tk[1]) =>
               /\ tk[2] # <<>>
               /\ tk[2][Len(tk[2])].is_quote
               /\ tk[2][Len(tk[2])].is_implicit
        /\ OpenerThenPlain(tk[1]) => tk[2] = <<Block(tk[1], TRUE, TRUE)>>

\* C12 witness: a reference verse that is one opener followed by plain text,
\* tokenized into one block.
C12_Witness ==
    /\ pc = "analyzed"
    /\ OpenerThenPlain(full_text)
    /\ Len(blocks) = 1

\* positions of the straight quotes of a text, left to right
StraightPositions(text) ==
    SelectSeq([i \in 1..Len(text) |-> i], LAMBDA i : text[i] = Straight)

\* the only delimiters of the text are straight quotes
OnlyStraight(text) ==
    \A j \in DOMAIN text : text[j] \in QUOTE_SPLITTER => text[j] = Straight

\* the segments from straight quote 2j-1 through straight quote 2j, and the
\* segment from the last straight quote to the end when their number is odd
StraightSegments(text) ==
    LET P == StraightPositions(text)
        n == Len(P)
    IN [j \in 1..((n + 1) \div 2) |->
          IF 2 * j <= n
          THEN Block(SubSeq(text, P[2 * j - 1], P[2 * j]), TRUE, FALSE)
          ELSE Block(SubSeq(text, P[n], Len(text)), TRUE, TRUE)]

\* C16: for a text whose only delimiters are straight quotes, tokenization
\* starts in narrative and the quote blocks are exactly the segments from
\* straight quote 2j-1 through straight quote 2j, plus one final quote block
\* with is_implicit true when the number of straight quotes is odd.
C16_StraightQuoteToggle ==
    \A tk \in Tokenized :
        OnlyStraight(tk[1]) =>
            /\ ~InitialState(Split(tk[1]))
            /\ SelectSeq(tk[2], LAMBDA b : b.is_quote) = StraightSegments(tk[1])
            /\ (tk[1] # <<>> /\ tk[1][1] # Straight) => ~tk[2][1].is_quote

\* C16 witness: a reference verse with three straight quotes and some plain
\* text, its last quote block implicit.
C16_Witness ==
    /\ pc = "analyzed"
    /\ OnlyStraight(full_text)
    /\ Len(StraightPositions(full_text)) = 3
    /\ \E j \in DOMAIN full_text : full_text[j] \notin QUOTE_SPLITTER
    /\ blocks[Len(blocks)].is_implicit

\* C15: normalize is idempotent: normalize(normalize(s)) = normalize(s).
C15_NormalizeIdempotent ==
    pc = "normalized_twice" => norm_twice = norm_once

\* the piece of this iteration is a verse that is processed: it has an id
\* and no earlier piece has the same id
ProcessedVerse ==
    /\ pc = "pass2"
    /\ cursor > 0
    /\ passage_pieces[cursor].type = "verse"
    /\ passage_pieces[cursor].id # NoneId
    /\ \A j \in 1..(cursor - 1) : passage_pieces[j].id # passage_pieces[cursor].id

\* the label of the verse of this iteration
CurrentId == passage_pieces[cursor].id

\* the mask lookup is made: the verse has no native red text and the
\* reference map is not empty
LookupMade == ProcessedVerse /\ ~has_native /\ DOMAIN red_letter_map # {}

\* the label is a-b with a and b made of digits
NumericRange(label) ==
    \E p \in DOMAIN label :
        /\ label[p] = "-"
        /\ \A i \in DOMAIN label : i # p => label[i] \in Range(DigitChars)
        /\ 1 < p /\ p < Len(label)

RangeStart(label) ==
    IntOf(SubSeq(label, 1, (CHOOSE p \in DOMAIN label : label[p] = "-") - 1))

RangeEnd(label) ==
    IntOf(SubSeq(label, (CHOOSE p \in DOMAIN label : label[p] = "-") + 1, Len(label)))

\* the verse numbers start..end that have a reference mask, increasing
MaskedNumbers(label) ==
    SelectSeq([k \in 1..(RangeEnd(label) - RangeStart(label) + 1) |->
                  RangeStart(label) + k - 1],
              LAMBDA n : StrOf(n) \in DOMAIN red_letter_map)

\* the masks of the verse numbers ns, one after the other
RECURSIVE MasksInOrder(_)
MasksInOrder(ns) ==
    IF ns = <<>> THEN <<>>
    ELSE red_letter_map[StrOf(Head(ns))] \o MasksInOrder(Tail(ns))

\* C13: for a verse labelled a-b with numeric a and b and no mask under that
\* label, the mask used is the masks of the labels a..b that have one, in
\* increasing order; a mask under the exact label is used as it is.
C13_RangeAggregation ==
    LookupMade =>
        /\ (NumericRange(CurrentId) /\ CurrentId \notin DOMAIN red_letter_map) =>
               mask = MasksInOrder(MaskedNumbers(CurrentId))
        /\ CurrentId \in DOMAIN red_letter_map => mask = red_letter_map[CurrentId]

\* C13 witness: the verse 1-3 with no mask of its own, verses 1 and 3 with
\* different masks and verse 2 without one.
C13_Witness ==
    /\ LookupMade
    /\ CurrentId = <<"1", "-", "3">>
    /\ DOMAIN red_letter_map = {<<"1">>, <<"3">>}
    /\ red_letter_map[<<"1">>] # red_letter_map[<<"3">>]
    /\ Len(mask) = 3

\* positions of the pieces that are emitted: the headers, and the first
\* piece of every verse that has an id
EmittedPositions ==
    SelectSeq([j \in 1..Len(passage_pieces) |-> j],
              LAMBDA j :
                  \/ passage_pieces[j].type = "header"
                  \/ /\ passage_pieces[j].id # NoneId
                     /\ \A i \in 1..(j - 1) :
                            passage_pieces[i].id # passage_pieces[j].id)

\* the range label has a boundary that is not a number
MalformedRange(label) ==
    /\ HasDash(label)
    /\ ~(IsInt(SplitDash(label)[1]) /\ IsInt(SplitDash(label)[2]))

\* the transfer onto the verse id fails: its range label is malformed, or a
\* mask is found and the mapping is not valid
TransferFails(id) ==
    \/ MalformedRange(id) /\ id \notin DOMAIN red_letter_map
    \/ LET m == MaskOf(id, red_letter_map, verse_buffer[id].has_native)
       IN m # <<>> /\ ~ValidMapping(get_quote_blocks(verse_buffer[id].html_content), m)

====
